---- MODULE Spec2Model ----
(***************************************************************************)
(* Model of webserver/src/canvas/socket_handler.rs: the per-connection     *)
(* task start_canvas_websocket_connection.  One connection is modelled:    *)
(* its three event sources (client frame stream, fan-in channel, heartbeat *)
(* interval), the biased nested select of the loop, the frame dispatcher,  *)
(* the heartbeat check and the shutdown sequence.                          *)
(*                                                                         *)
(* Byte strings and texts are sequences of character codes; an Option is a *)
(* sequence of length at most one (None == << >>, Some(x) == <<x>>).       *)
(***************************************************************************)
EXTENDS Naturals, Integers, Sequences, FiniteSets

VARIABLES
    pc,              \* position of the task: start, loop, closing, done, panicked
    now,             \* the clock read by Instant::now()
    last_heartbeat,  \* line 33
    nextTick,        \* deadline of the next interval tick (line 34)
    frames,          \* items of msg_stream not yet taken by next()
    streamEnded,     \* the peer's stream has ended (next() yields None when drained)
    message_rx,      \* fan-in messages not yet taken by recv()
    sendersDropped,  \* every message_tx clone was dropped
    terminal,        \* the condition that ended the loop ("None" while it runs
                     \* and when a failed write's unwrap() ended it)
    close_reason,    \* value of the loop expression (line 52)
    connects,        \* calls of chat_server.connect
    disconnects,     \* calls of chat_server.disconnect, in order
    closes,          \* calls of session.close, in order
    arm,             \* the arm of the loop's match taken by the step that led
                     \* to this state ("" when it was no iteration of the loop)
    calls,           \* the broadcast_event / pong / ping / text calls made by
                     \* the step that led to this state, in order
    silence          \* history: time since the client's last Ping/Pong arrived
                     \* (since the start before the first), stuck at
                     \* CLIENT_TIMEOUT once a gap has reached it

vars == <<pc, now, last_heartbeat, nextTick, frames, streamEnded,
          message_rx, sendersDropped, terminal, close_reason,
          connects, disconnects, closes, arm, calls, silence>>

----------------------------------------------------------------------------
(* Program constants *)

HEARTBEAT_INTERVAL == 5
CLIENT_TIMEOUT == 10

(* Bounds of the model: the clock's horizon and the capacities of the two  *)
(* queues (the numbers of frames and of fan-in messages are not bounded)   *)

MaxTime == 11
MaxPendingFrames == 1
MaxPendingChat == 1

(* Bounds of the burst environment: a short horizon and deeper queues *)

BurstTime == 1
BurstFrames == 2
BurstChat == 2

(* Bounds of the long environment: a horizon of four heartbeat intervals   *)
(* and the number of frames and fan-in messages in flight together         *)

LongTime == 20
LongPending == 1

(* The connection's identity (arguments canvas_id and user) *)

canvas_id == "canvas1"
user_id == "user1"

None == << >>
Some(x) == <<x>>

(* Inputs *)

PingPayloads == {<<1, 2>>}
Texts == {<<32, 104, 32, 105, 10>>, <<10, 32>>}
CloseReasons == {None, Some(1000)}
ChatMsgs == {<<109>>, <<110>>}

Ping(bytes) == [kind |-> "Ping", payload |-> bytes]
Pong(bytes) == [kind |-> "Pong", payload |-> bytes]
Text(text) == [kind |-> "Text", payload |-> text]
Binary(bin) == [kind |-> "Binary", payload |-> bin]
Close(reason) == [kind |-> "Close", payload |-> reason]
StreamErr == [kind |-> "Err", payload |-> None]

AggregatedMessage ==
    {Ping(p) : p \in PingPayloads} \cup {Pong(<< >>)}
        \cup {Text(t) : t \in Texts} \cup {Binary(<<0>>)}
        \cup {Close(r) : r \in CloseReasons}

StreamItems == AggregatedMessage \cup {StreamErr}

----------------------------------------------------------------------------
(* str::trim *)

IsWhitespace(c) == c \in {9, 10, 11, 12, 13, 32}

RECURSIVE TrimStart(_)
TrimStart(s) ==
    IF s # << >> /\ IsWhitespace(Head(s)) THEN TrimStart(Tail(s)) ELSE s

RECURSIVE TrimEnd(_)
TrimEnd(s) ==
    IF s # << >> /\ IsWhitespace(s[Len(s)])
    THEN TrimEnd(SubSeq(s, 1, Len(s) - 1))
    ELSE s

(* Variant: str::trim_start in place of str::trim *)
Trim_startOnly(s) == TrimStart(s)

Trim(s) == TrimEnd(TrimStart(s))

----------------------------------------------------------------------------
Init ==
    /\ pc = "start"
    /\ now = 0
    /\ last_heartbeat = 0
    /\ nextTick = 0
    /\ frames = << >>
    /\ streamEnded = FALSE
    /\ message_rx = << >>
    /\ sendersDropped = FALSE
    /\ terminal = "None"
    /\ close_reason = None
    /\ connects = 0
    /\ disconnects = << >>
    /\ closes = << >>
    /\ arm = ""
    /\ calls = << >>
    /\ silence = 0

----------------------------------------------------------------------------
(* The environment: the client, the chat server and the clock.  It is only *)
(* observed while the task has not left the loop.                          *)

taskVars == <<pc, last_heartbeat, nextTick, terminal, close_reason, connects,
              disconnects, closes>>

Live == pc \in {"start", "loop"}

ClientSendUpTo(item, capacity) ==
    /\ Live
    /\ ~streamEnded
    /\ Len(frames) < capacity
    /\ frames' = Append(frames, item)
    /\ silence' = IF item.kind \in {"Ping", "Pong"} /\ silence < CLIENT_TIMEOUT
                  THEN 0
                  ELSE silence
    /\ arm' = ""
    /\ calls' = << >>
    /\ UNCHANGED <<taskVars, now, streamEnded, message_rx, sendersDropped>>

ClientSend(item) == ClientSendUpTo(item, MaxPendingFrames)

StreamEnd ==
    /\ Live
    /\ ~streamEnded
    /\ streamEnded' = TRUE
    /\ arm' = ""
    /\ calls' = << >>
    /\ UNCHANGED <<taskVars, now, frames, message_rx, sendersDropped, silence>>

ServerSendUpTo(chat_msg, capacity) ==
    /\ pc = "loop"
    /\ ~sendersDropped
    /\ Len(message_rx) < capacity
    /\ message_rx' = Append(message_rx, chat_msg)
    /\ arm' = ""
    /\ calls' = << >>
    /\ UNCHANGED <<taskVars, now, frames, streamEnded, sendersDropped, silence>>

ServerSend(chat_msg) == ServerSendUpTo(chat_msg, MaxPendingChat)

DropSenders ==
    /\ pc = "loop"
    /\ ~sendersDropped
    /\ sendersDropped' = TRUE
    /\ arm' = ""
    /\ calls' = << >>
    /\ UNCHANGED <<taskVars, now, frames, streamEnded, message_rx, silence>>

AdvanceUpTo(horizon) ==
    /\ Live
    /\ now < horizon
    /\ now' = now + 1
    /\ silence' = IF silence < CLIENT_TIMEOUT THEN silence + 1 ELSE silence
    /\ arm' = ""
    /\ calls' = << >>
    /\ UNCHANGED <<taskVars, frames, streamEnded, message_rx, sendersDropped>>

Advance == AdvanceUpTo(MaxTime)

----------------------------------------------------------------------------
(* The task *)

envVars == <<now, streamEnded, sendersDropped, silence>>

(* Variant: the loop is entered without registering with the chat server *)
Connect_unregistered ==
    /\ pc = "start"
    /\ pc' = "loop"
    /\ arm' = ""
    /\ calls' = << >>
    /\ UNCHANGED <<envVars, frames, message_rx, last_heartbeat, nextTick,
                   terminal, close_reason, connects, disconnects, closes>>

Connect ==
    /\ pc = "start"
    /\ connects' = connects + 1
    /\ pc' = "loop"
    /\ arm' = ""
    /\ calls' = << >>
    /\ UNCHANGED <<envVars, frames, message_rx, last_heartbeat, nextTick,
                   terminal, close_reason, disconnects, closes>>

(* select(select(msg_stream.next(), msg_rx), tick): each select polls its  *)
(* left future first, so a ready left source wins over a ready right one.  *)
FrameReady == frames # << >> \/ streamEnded
ChatReady == message_rx # << >> \/ sendersDropped
TickReady == now >= nextTick

(* Variant: the tick is polled before the two message sources *)
Selected_tickFirst ==
    IF TickReady THEN "tick"
    ELSE IF FrameReady THEN "frame"
    ELSE IF ChatReady THEN "chat"
    ELSE "pending"

Selected ==
    IF FrameReady THEN "frame"
    ELSE IF ChatReady THEN "chat"
    ELSE IF TickReady THEN "tick"
    ELSE "pending"

(* break <reason>, followed without suspension by chat_server.disconnect *)
Break(cond, reason) ==
    /\ terminal' = cond
    /\ close_reason' = reason
    /\ disconnects' = Append(disconnects, <<canvas_id, user_id>>)
    /\ pc' = "closing"

(* session.pong(&bytes), session.ping(b""), session.text(chat_msg): a call *)
(* is recorded when it is made; whether it failed shows in what follows    *)
PongWrite(bytes) == [op |-> "pong", args |-> <<bytes>>]
PingWrite == [op |-> "ping", args |-> << << >> >>]
TextWrite(chat_msg) == [op |-> "text", args |-> <<chat_msg>>]

(* Result<(), Closed>::unwrap *)
Unwrap(ok) == IF ok THEN "loop" ELSE "panicked"

process_user_socket_msg(text) ==
    [op |-> "broadcast_event", args |-> <<canvas_id, user_id, Trim(text)>>]

(* Variant: the timeout is already declared when exactly the threshold has passed *)
TimedOut_inclusive(t, last) == t - last >= CLIENT_TIMEOUT

(* Variant: the timeout is only declared one heartbeat interval later *)
TimedOut_late(t, last) == t - last > CLIENT_TIMEOUT + HEARTBEAT_INTERVAL

TimedOut(t, last) == t - last > CLIENT_TIMEOUT

TakesFrame(kind) ==
    /\ pc = "loop"
    /\ Selected = "frame"
    /\ frames # << >>
    /\ Head(frames).kind = kind
    /\ frames' = Tail(frames)

HandlePing ==
    /\ TakesFrame("Ping")
    /\ last_heartbeat' = now
    /\ arm' = "Ping"
    /\ calls' = <<PongWrite(Head(frames).payload)>>
    /\ \E ok \in BOOLEAN : pc' = Unwrap(ok)
    /\ UNCHANGED <<envVars, message_rx, nextTick, terminal, close_reason,
                   connects, disconnects, closes>>

HandlePong ==
    /\ TakesFrame("Pong")
    /\ last_heartbeat' = now
    /\ arm' = "Pong"
    /\ calls' = << >>
    /\ UNCHANGED <<envVars, message_rx, pc, nextTick, terminal, close_reason,
                   connects, disconnects, closes>>

(* Variant: a Text frame counts as a sign of life *)
HandleText_alive ==
    /\ TakesFrame("Text")
    /\ last_heartbeat' = now
    /\ arm' = "Text"
    /\ calls' = <<process_user_socket_msg(Head(frames).payload)>>
    /\ UNCHANGED <<envVars, message_rx, pc, nextTick, terminal,
                   close_reason, connects, disconnects, closes>>

HandleText ==
    /\ TakesFrame("Text")
    /\ arm' = "Text"
    /\ calls' = <<process_user_socket_msg(Head(frames).payload)>>
    /\ UNCHANGED <<envVars, message_rx, pc, last_heartbeat, nextTick, terminal,
                   close_reason, connects, disconnects, closes>>

(* Variant: a fan-in message that was ready while a frame won is dropped *)
HandleBinary_losesChat ==
    /\ TakesFrame("Binary")
    /\ message_rx' = IF message_rx # << >> THEN Tail(message_rx) ELSE message_rx
    /\ arm' = "Binary"
    /\ calls' = << >>
    /\ UNCHANGED <<envVars, pc, last_heartbeat, nextTick, terminal,
                   close_reason, connects, disconnects, closes>>

(* Variant: a Binary frame counts as a sign of life *)
HandleBinary_alive ==
    /\ TakesFrame("Binary")
    /\ last_heartbeat' = now
    /\ arm' = "Binary"
    /\ calls' = << >>
    /\ UNCHANGED <<envVars, message_rx, pc, nextTick, terminal, close_reason,
                   connects, disconnects, closes>>

HandleBinary ==
    /\ TakesFrame("Binary")
    /\ arm' = "Binary"
    /\ calls' = << >>
    /\ UNCHANGED <<envVars, message_rx, pc, last_heartbeat, nextTick, terminal,
                   close_reason, connects, disconnects, closes>>

(* Variant: the client's reason is dropped (break None) *)
HandleClose_noReason ==
    /\ TakesFrame("Close")
    /\ Break("ClientClose", None)
    /\ arm' = "Close"
    /\ calls' = << >>
    /\ UNCHANGED <<envVars, message_rx, last_heartbeat, nextTick, connects, closes>>

HandleClose ==
    /\ TakesFrame("Close")
    /\ Break("ClientClose", Head(frames).payload)
    /\ arm' = "Close"
    /\ calls' = << >>
    /\ UNCHANGED <<envVars, message_rx, last_heartbeat, nextTick, connects, closes>>

HandleStreamError ==
    /\ TakesFrame("Err")
    /\ Break("StreamError", None)
    /\ arm' = "StreamError"
    /\ calls' = << >>
    /\ UNCHANGED <<envVars, message_rx, last_heartbeat, nextTick, connects, closes>>

(* Variant: a stream that ends without a Close frame yields a made-up reason *)
HandleStreamEnded_reason ==
    /\ pc = "loop"
    /\ Selected = "frame"
    /\ frames = << >>
    /\ Break("StreamEnded", Some(1006))
    /\ arm' = "StreamEnded"
    /\ calls' = << >>
    /\ UNCHANGED <<envVars, frames, message_rx, last_heartbeat, nextTick,
                   connects, closes>>

HandleStreamEnded ==
    /\ pc = "loop"
    /\ Selected = "frame"
    /\ frames = << >>
    /\ Break("StreamEnded", None)
    /\ arm' = "StreamEnded"
    /\ calls' = << >>
    /\ UNCHANGED <<envVars, frames, message_rx, last_heartbeat, nextTick,
                   connects, closes>>

(* Variant: the newest fan-in message is taken first *)
HandleChatMsg_newestFirst ==
    /\ pc = "loop"
    /\ Selected = "chat"
    /\ message_rx # << >>
    /\ message_rx' = SubSeq(message_rx, 1, Len(message_rx) - 1)
    /\ arm' = "ChatMsg"
    /\ calls' = <<TextWrite(message_rx[Len(message_rx)])>>
    /\ \E ok \in BOOLEAN : pc' = Unwrap(ok)
    /\ UNCHANGED <<envVars, frames, last_heartbeat, nextTick, terminal,
                   close_reason, connects, disconnects, closes>>

(* Variant: an iteration that forwards a fan-in message also serves a due tick *)
HandleChatMsg_withTick ==
    /\ pc = "loop"
    /\ Selected = "chat"
    /\ message_rx # << >>
    /\ message_rx' = Tail(message_rx)
    /\ arm' = "ChatMsg"
    /\ IF TickReady
       THEN /\ nextTick' = nextTick + HEARTBEAT_INTERVAL
            /\ calls' = <<TextWrite(Head(message_rx)), PingWrite>>
       ELSE /\ nextTick' = nextTick
            /\ calls' = <<TextWrite(Head(message_rx))>>
    /\ \E ok \in BOOLEAN : pc' = Unwrap(ok)
    /\ UNCHANGED <<envVars, frames, last_heartbeat, terminal,
                   close_reason, connects, disconnects, closes>>

HandleChatMsg ==
    /\ pc = "loop"
    /\ Selected = "chat"
    /\ message_rx # << >>
    /\ message_rx' = Tail(message_rx)
    /\ arm' = "ChatMsg"
    /\ calls' = <<TextWrite(Head(message_rx))>>
    /\ \E ok \in BOOLEAN : pc' = Unwrap(ok)
    /\ UNCHANGED <<envVars, frames, last_heartbeat, nextTick, terminal,
                   close_reason, connects, disconnects, closes>>

(* recv() yields None: this arm ends the loop by the panic of unreachable!() *)
HandleSendersDropped ==
    /\ pc = "loop"
    /\ Selected = "chat"
    /\ message_rx = << >>
    /\ terminal' = "ChannelClosed"
    /\ pc' = "panicked"
    /\ arm' = "SendersDropped"
    /\ calls' = << >>
    /\ UNCHANGED <<envVars, frames, message_rx, last_heartbeat, nextTick,
                   close_reason, connects, disconnects, closes>>

(* Variant: the interval has twice the heartbeat period *)
HandleTick_slow ==
    /\ pc = "loop"
    /\ Selected = "tick"
    /\ arm' = "Tick"
    /\ nextTick' = nextTick + 2 * HEARTBEAT_INTERVAL
    /\ IF TimedOut(now, last_heartbeat)
       THEN /\ Break("LivenessTimeout", None)
            /\ calls' = << >>
       ELSE /\ calls' = <<PingWrite>>
            /\ UNCHANGED <<pc, terminal, close_reason, disconnects>>
    /\ UNCHANGED <<envVars, frames, message_rx, last_heartbeat, connects, closes>>

HandleTick ==
    /\ pc = "loop"
    /\ Selected = "tick"
    /\ arm' = "Tick"
    /\ nextTick' = nextTick + HEARTBEAT_INTERVAL
    /\ IF TimedOut(now, last_heartbeat)
       THEN /\ Break("LivenessTimeout", None)
            /\ calls' = << >>
       ELSE /\ calls' = <<PingWrite>>
            /\ UNCHANGED <<pc, terminal, close_reason, disconnects>>
    /\ UNCHANGED <<envVars, frames, message_rx, last_heartbeat, connects, closes>>

(* Variant: a fan-in message still pending is flushed before the close *)
CloseHandshake_flush ==
    /\ pc = "closing"
    /\ closes' = Append(closes, close_reason)
    /\ arm' = ""
    /\ IF message_rx # << >>
       THEN /\ calls' = <<TextWrite(Head(message_rx))>>
            /\ message_rx' = Tail(message_rx)
       ELSE /\ calls' = << >>
            /\ message_rx' = message_rx
    /\ pc' = "done"
    /\ UNCHANGED <<envVars, frames, last_heartbeat, nextTick,
                   terminal, close_reason, connects, disconnects>>

(* let _ = session.close(close_reason).await *)
CloseHandshake ==
    /\ pc = "closing"
    /\ closes' = Append(closes, close_reason)
    /\ arm' = ""
    /\ calls' = << >>
    /\ pc' = "done"
    /\ UNCHANGED <<envVars, frames, message_rx, last_heartbeat, nextTick,
                   terminal, close_reason, connects, disconnects>>

LoopStep ==
    \/ HandlePing
    \/ HandlePong
    \/ HandleText
    \/ HandleBinary
    \/ HandleClose
    \/ HandleStreamError
    \/ HandleStreamEnded
    \/ HandleChatMsg
    \/ HandleSendersDropped
    \/ HandleTick

Next ==
    \/ \E item \in StreamItems : ClientSend(item)
    \/ StreamEnd
    \/ \E chat_msg \in ChatMsgs : ServerSend(chat_msg)
    \/ DropSenders
    \/ Advance
    \/ Connect
    \/ HandlePing
    \/ HandlePong
    \/ HandleText
    \/ HandleBinary
    \/ HandleClose
    \/ HandleStreamError
    \/ HandleStreamEnded
    \/ HandleChatMsg
    \/ HandleSendersDropped
    \/ HandleTick
    \/ CloseHandshake

Spec == Init /\ [][Next]_vars

(* The same task in the burst environment *)
BurstClientSend(item) == ClientSendUpTo(item, BurstFrames)
BurstServerSend(chat_msg) == ServerSendUpTo(chat_msg, BurstChat)
BurstAdvance == AdvanceUpTo(BurstTime)

BurstNext ==
    \/ \E item \in StreamItems : BurstClientSend(item)
    \/ StreamEnd
    \/ \E chat_msg \in ChatMsgs : BurstServerSend(chat_msg)
    \/ DropSenders
    \/ BurstAdvance
    \/ Connect
    \/ HandlePing
    \/ HandlePong
    \/ HandleText
    \/ HandleBinary
    \/ HandleClose
    \/ HandleStreamError
    \/ HandleStreamEnded
    \/ HandleChatMsg
    \/ HandleSendersDropped
    \/ HandleTick
    \/ CloseHandshake

BurstSpec == Init /\ [][BurstNext]_vars

(* The same task in the long environment *)
LongClientSend(item) == ClientSendUpTo(item, LongPending - Len(message_rx))
LongServerSend(chat_msg) == ServerSendUpTo(chat_msg, LongPending - Len(frames))
LongAdvance == AdvanceUpTo(LongTime)

LongNext ==
    \/ \E item \in StreamItems : LongClientSend(item)
    \/ StreamEnd
    \/ \E chat_msg \in ChatMsgs : LongServerSend(chat_msg)
    \/ DropSenders
    \/ LongAdvance
    \/ Connect
    \/ HandlePing
    \/ HandlePong
    \/ HandleText
    \/ HandleBinary
    \/ HandleClose
    \/ HandleStreamError
    \/ HandleStreamEnded
    \/ HandleChatMsg
    \/ HandleSendersDropped
    \/ HandleTick
    \/ CloseHandshake

LongSpec == Init /\ [][LongNext]_vars

LongFairSpec ==
    /\ LongSpec
    /\ WF_vars(Connect \/ LoopStep \/ CloseHandshake)
    /\ WF_vars(LongAdvance)

(* The task is polled whenever it can take a step, and the clock runs on *)
FairSpec ==
    /\ Spec
    /\ WF_vars(Connect \/ LoopStep \/ CloseHandshake)
    /\ WF_vars(Advance)

----------------------------------------------------------------------------
(* Steps of the loop, recognised by what they take from their source *)

Identity == <<canvas_id, user_id>>

FrameStep(kind) ==
    /\ pc = "loop"
    /\ frames # << >>
    /\ Head(frames).kind = kind
    /\ frames' = Tail(frames)

LoopStopped == pc \in {"closing", "done", "panicked"}

----------------------------------------------------------------------------
(* C1: whichever way the loop stops (client Close, stream error, stream    *)
(* end, liveness timeout, fan-in channel closed), disconnect has been      *)
(* called exactly once, for this connection's (room id, user id), as soon  *)
(* as the loop has stopped.                                                *)
C1_DisconnectOnceOnEveryStop ==
    terminal # "None" => (LoopStopped /\ disconnects = <<Identity>>)

(* C2: the step that handles Close(reason) ends the loop; from then on the *)
(* loop's reason stays that reason, disconnect has been called exactly     *)
(* once for (room, user), and the close handshake is attempted with        *)
(* exactly that reason.                                                    *)
C2_CloseFrameShutsDown ==
    [][/\ FrameStep("Close") =>
            /\ pc' = "closing"
            /\ terminal' = "ClientClose"
            /\ close_reason' = Head(frames).payload
            /\ disconnects' = <<Identity>>
            /\ closes' = << >>
       /\ terminal = "ClientClose" =>
            /\ close_reason' = close_reason
            /\ disconnects' = disconnects
            /\ pc' \in {"closing", "done"}
            /\ (pc' = "done" => closes' = <<close_reason>>)]_vars

C2_Witness ==
    /\ pc = "done"
    /\ terminal = "ClientClose"
    /\ closes = <<Some(1000)>>
    /\ disconnects = <<Identity>>

(* C5: an outbound transport write (pong, ping or text) never ends the     *)
(* connection: after the step that made the write the loop is still        *)
(* running, whether the write succeeded or failed.                         *)
C5_WriteNeverEndsLoop ==
    (calls # << >> /\ calls[1].op \in {"pong", "ping", "text"}) => pc = "loop"

(* C6: when the fan-in channel is closed (recv yields none), the loop ends *)
(* with ChannelClosed and an absent close reason and goes on to the        *)
(* shutdown sequence; the task does not abort.                             *)
C6_ChannelClosedShutsDown ==
    arm = "SendersDropped" =>
        /\ terminal = "ChannelClosed"
        /\ close_reason = None
        /\ pc = "closing"
        /\ disconnects = <<Identity>>

(* C7: the step that handles Ping(p) makes exactly one call, pong(p), sets *)
(* last_heartbeat to the current time, makes no broadcast call and leaves  *)
(* the loop running.                                                       *)
C7_PingStep ==
    [][FrameStep("Ping") =>
            /\ calls' = <<[op |-> "pong", args |-> <<Head(frames).payload>>]>>
            /\ last_heartbeat' = now
            /\ pc' = "loop"]_vars

(* C8: the step that handles Text(t) makes exactly one call,              *)
(* broadcast_event, with this connection's room id and user id and with t  *)
(* stripped of its leading and trailing whitespace; it writes nothing to   *)
(* the transport, leaves last_heartbeat alone and the loop running.        *)
IsTrimOf(m, t) ==
    \E i \in 1..(Len(t) + 1) : \E j \in (i - 1)..Len(t) :
        /\ m = SubSeq(t, i, j)
        /\ \A k \in 1..(i - 1) : IsWhitespace(t[k])
        /\ \A k \in (j + 1)..Len(t) : IsWhitespace(t[k])
        /\ m # << >> => (~IsWhitespace(m[1]) /\ ~IsWhitespace(m[Len(m)]))

ReturningConditions ==
    {"ClientClose", "StreamError", "StreamEnded", "LivenessTimeout"}

Spaced == silence < CLIENT_TIMEOUT

C4_SpacedNeverTimesOut == Spaced => terminal # "LivenessTimeout"

(* a tick is handled later than CLIENT_TIMEOUT after the start, the        *)
(* client's Ping/Pong frames having kept the connection alive              *)
C4_Witness ==
    /\ arm = "Tick"
    /\ pc = "loop"
    /\ Spaced
    /\ now > CLIENT_TIMEOUT
    /\ last_heartbeat > 0

(* C3: if no Ping or Pong has been handled for longer than CLIENT_TIMEOUT  *)
(* and no client Close frame arrives first, the loop eventually ends with  *)
(* LivenessTimeout and no close reason.  Stated for the states in which    *)
(* the tick that would detect it is already due; a Ping or Pong handled    *)
(* afterwards, and a task that a failed write or a closed channel has      *)
(* ended, count as not refuting it.                                        *)
Stale == pc = "loop" /\ now - last_heartbeat > CLIENT_TIMEOUT

CloseSeen ==
    \/ terminal = "ClientClose"
    \/ \E i \in 1..Len(frames) : frames[i].kind = "Close"

----------------------------------------------------------------------------
(* C11: the shutdown sequence runs exactly once per connection and only    *)
(* after the loop: while the loop runs nothing of it has happened, the     *)
(* close handshake never precedes disconnect, and a task that has ended    *)
(* has ended normally, having called disconnect once for (room, user) and  *)
(* then attempted one close handshake with the loop's reason.              *)
C11_ShutdownOncePerConnection ==
    /\ pc \in {"start", "loop"} => (disconnects = << >> /\ closes = << >>)
    /\ Len(closes) <= Len(disconnects)
    /\ pc \in {"done", "panicked"} =>
          /\ pc = "done"
          /\ disconnects = <<Identity>>
          /\ closes = <<close_reason>>

(* C12: once a terminal condition has been detected (the loop has stopped) *)
(* no event is drawn or handled any more: no step makes a pong, ping, text *)
(* or broadcast call, takes a frame, a fan-in message or a tick, or moves  *)
(* last_heartbeat, whatever is still pending; the only steps left are the  *)
(* disconnect already made by the break and the close handshake.           *)
C12_NothingAfterTerminal ==
    [][(terminal # "None" \/ LoopStopped) =>
          /\ calls' = << >>
          /\ arm' = ""
          /\ frames' = frames
          /\ message_rx' = message_rx
          /\ nextTick' = nextTick
          /\ last_heartbeat' = last_heartbeat
          /\ terminal' = terminal
          /\ disconnects' = disconnects
          /\ (closes' # closes =>
                pc = "closing" /\ closes' = Append(closes, close_reason))]_vars

C12_Witness ==
    /\ pc = "done"
    /\ terminal = "ClientClose"
    /\ frames # << >>
    /\ message_rx # << >>
    /\ TickReady

(* C13: last_heartbeat never decreases; a step that handles a Ping or a    *)
(* Pong sets it to the current time, and no other step (Text, Binary,      *)
(* fan-in message, tick, or any step outside the loop) changes it.         *)
C13_LastAliveOnlyByPingPong ==
    [][/\ last_heartbeat' >= last_heartbeat
       /\ (FrameStep("Ping") \/ FrameStep("Pong")) => last_heartbeat' = now
       /\ ~(FrameStep("Ping") \/ FrameStep("Pong")) =>
             last_heartbeat' = last_heartbeat]_vars

C13_Witness ==
    /\ arm = "Pong"
    /\ now > 0
    /\ last_heartbeat = now

(* C14: a step that handles a timer tick does exactly one of two things:   *)
(* when more than CLIENT_TIMEOUT has passed since last_heartbeat it ends   *)
(* the loop with LivenessTimeout and writes no ping; otherwise (at most    *)
(* CLIENT_TIMEOUT has passed) it writes exactly one ping and the loop goes *)
(* on.  The tick step itself never calls session.close.                    *)
TickStep == pc = "loop" /\ nextTick' # nextTick

C14_TickPingsOrTimesOut ==
    [][TickStep =>
          /\ IF now - last_heartbeat > CLIENT_TIMEOUT
             THEN /\ terminal' = "LivenessTimeout"
                  /\ pc' = "closing"
                  /\ calls' = << >>
             ELSE /\ calls' = <<PingWrite>>
                  /\ pc' = "loop"
                  /\ terminal' = "None"
          /\ closes' = closes]_vars

C14_Witness ==
    /\ arm = "Tick"
    /\ pc = "loop"
    /\ calls = <<PingWrite>>
    /\ now - last_heartbeat = CLIENT_TIMEOUT

(* C15: per-source FIFO.  Fan-in messages enter message_rx at its end and  *)
(* leave it only at its head, and the step that takes one makes exactly    *)
(* one text write with that very payload; client frames enter and leave    *)
(* their stream the same way and the step that takes a Text frame makes    *)
(* the broadcast for that frame; no other step writes a text or            *)
(* broadcasts.  So writes follow the delivery order and broadcasts the     *)
(* client's send order.                                                    *)
ChatStep ==
    /\ pc = "loop"
    /\ message_rx # << >>
    /\ message_rx' = Tail(message_rx)

OpsOf(cs) == {cs[i].op : i \in 1..Len(cs)}

C15_PerSourceFifo ==
    [][/\ ChatStep => calls' = <<TextWrite(Head(message_rx))>>
       /\ "text" \in OpsOf(calls') => ChatStep
       /\ message_rx' # message_rx =>
             \/ ChatStep
             \/ \E chat_msg \in ChatMsgs :
                   message_rx' = Append(message_rx, chat_msg)
       /\ FrameStep("Text") =>
             calls' = <<process_user_socket_msg(Head(frames).payload)>>
       /\ "broadcast_event" \in OpsOf(calls') => FrameStep("Text")
       /\ frames' # frames =>
             \/ pc = "loop" /\ frames # << >> /\ frames' = Tail(frames)
             \/ \E item \in StreamItems : frames' = Append(frames, item)]_vars

C15_Witness ==
    /\ arm = "ChatMsg"
    /\ calls = <<TextWrite(<<109>>)>>
    /\ message_rx = << <<110>> >>

(* C16: no source is starved.  While the loop runs, a client frame that is *)
(* ready, a fan-in message that is ready and a timer tick that is due are  *)
(* each eventually handled, unless the loop ends first, also when another  *)
(* source is ready all the time.                                           *)
FrameArms == {"Ping", "Pong", "Text", "Binary", "Close", "StreamError"}

C16_NoSourceStarved ==
    /\ (pc = "loop" /\ frames # << >>) ~> (pc # "loop" \/ arm \in FrameArms)
    /\ (pc = "loop" /\ message_rx # << >>) ~> (pc # "loop" \/ arm = "ChatMsg")
    /\ (pc = "loop" /\ TickReady) ~> (pc # "loop" \/ arm = "Tick")

(* C17: every iteration of the loop takes exactly one event from exactly   *)
(* one source (a frame or the end of the stream, a fan-in message or the   *)
(* closing of the channel, or a tick) and handles only that event: it      *)
(* makes at most one call, and only a call that belongs to the source it   *)
(* took from.  No step takes from two sources.                             *)
TookFrame ==
    \/ frames # << >> /\ frames' = Tail(frames)
    \/ terminal = "None" /\ terminal' = "StreamEnded"

TookChat ==
    \/ ChatStep
    \/ terminal = "None" /\ terminal' = "ChannelClosed"

TookTick == nextTick' # nextTick

Iteration ==
    /\ pc = "loop"
    /\ \/ calls' # << >>
       \/ last_heartbeat' # last_heartbeat
       \/ pc' # pc
       \/ terminal' # terminal
       \/ TookFrame \/ TookChat \/ TookTick

C17_OneEventPerIteration ==
    [][/\ ~(TookFrame /\ TookChat)
       /\ ~(TookFrame /\ TookTick)
       /\ ~(TookChat /\ TookTick)
       /\ (TookFrame \/ TookChat \/ TookTick) => pc = "loop"
       /\ Iteration =>
             /\ TookFrame \/ TookChat \/ TookTick
             /\ Len(calls') <= 1
             /\ TookFrame => OpsOf(calls') \subseteq {"pong", "broadcast_event"}
             /\ TookChat => OpsOf(calls') \subseteq {"text"}
             /\ TookTick => OpsOf(calls') \subseteq {"ping"}]_vars

C17_Witness ==
    /\ arm = "ChatMsg"
    /\ pc = "loop"
    /\ Len(calls) = 1
    /\ TickReady

TickOnTime == nextTick = now + HEARTBEAT_INTERVAL

TicksHandledWhenFired == Live => now <= nextTick

C19_TimeoutBeforeNextInterval ==
    /\ []((terminal = "LivenessTimeout" /\ pc = "closing") => arm = "Tick")
    /\ [](terminal = "LivenessTimeout" => now - last_heartbeat > CLIENT_TIMEOUT)
    /\ []TicksHandledWhenFired =>
          []((terminal = "LivenessTimeout" /\ last_heartbeat > 0) =>
                now - last_heartbeat < CLIENT_TIMEOUT + HEARTBEAT_INTERVAL)

(* C19, amended: the liveness timeout is decided only in a step that       *)
(* handles a tick; the loop is never ended by it when at most              *)
(* CLIENT_TIMEOUT has passed since last_heartbeat; when the deciding tick  *)
(* is handled at the moment it fires, at most CLIENT_TIMEOUT +             *)
(* HEARTBEAT_INTERVAL has passed (termination at t + 15 at the latest);    *)
(* and a loop that still runs with every fired tick handled is less than   *)
(* CLIENT_TIMEOUT + HEARTBEAT_INTERVAL past last_heartbeat.                *)
C19_TimeoutWithinNextInterval ==
    /\ (terminal = "LivenessTimeout" /\ pc = "closing") => arm = "Tick"
    /\ terminal = "LivenessTimeout" => now - last_heartbeat > CLIENT_TIMEOUT
    /\ (terminal = "LivenessTimeout" /\ TickOnTime) =>
          now - last_heartbeat <= CLIENT_TIMEOUT + HEARTBEAT_INTERVAL
    /\ (pc = "loop" /\ nextTick > now) =>
          now - last_heartbeat < CLIENT_TIMEOUT + HEARTBEAT_INTERVAL

C19_Witness ==
    /\ terminal = "LivenessTimeout"
    /\ TickOnTime
    /\ last_heartbeat = HEARTBEAT_INTERVAL
    /\ now = last_heartbeat + CLIENT_TIMEOUT + HEARTBEAT_INTERVAL

(* C20: the chat server calls of a connection are well bracketed: connect  *)
(* is called exactly once, before any event of any source is handled;      *)
(* every broadcast is made after connect and while disconnect has not been *)
(* called; disconnect is never called before connect, and no broadcast     *)
(* follows it.                                                             *)
C20_RegistrarBracketed ==
    [][/\ connects' >= connects
       /\ connects' <= 1
       /\ pc' # "start" => connects' = 1
       /\ (TookFrame \/ TookChat \/ TookTick) => connects = 1
       /\ "broadcast_event" \in OpsOf(calls') =>
             /\ connects = 1
             /\ disconnects = << >>
             /\ disconnects' = << >>
       /\ disconnects' # disconnects => connects = 1
       /\ disconnects # << >> => connects' = connects]_vars

C20_Witness ==
    /\ arm = "Text"
    /\ "broadcast_event" \in OpsOf(calls)
    /\ connects = 1
    /\ disconnects = << >>
    /\ now > 0

====
